---- MODULE Spec2Model ----
(***************************************************************************)
(* Model of base/setup/lib/utils/inicache.c (ReactOS setup library):      *)
(* the INI cache (sections and keys kept in doubly linked lists), its     *)
(* text scanner, the loader and the serializer.                           *)
(*                                                                         *)
(* Pointers are indices into the sequences holding the heap nodes, and    *)
(* NULL is 0.  Text is a sequence of one-character strings; a C string is *)
(* the characters before its first NUL.                                   *)
(***************************************************************************)
EXTENDS Integers, Sequences, FiniteSets, TLC

VARIABLES
    cache,       \* INICACHE header: [FirstSection, LastSection]
    sections,    \* heap of INI_SECTION nodes: [Name, FirstKey, LastKey, Next, Prev]
    keys,        \* heap of INI_KEYWORD nodes: [Name, Data, Next, Prev]
    phase,       \* position of the program
    mem,         \* memory at FileBuffer: the text, its NUL, then what lies behind it
    FileLength,  \* number of characters before the terminating NUL
    String,      \* quoted mode of the load
    Ptr,         \* cursor of IniCacheLoadFromMemory (index into mem, NULL = 0)
    Section,     \* current section of IniCacheLoadFromMemory
    maxPos,      \* highest position of mem the scanner has read or moved to
    lines,       \* the lines the text was made of
    firstLoad,   \* contents of the cache after the first load
    file,        \* bytes IniCacheSaveByHandle handed to NtWriteFile
    heap,        \* process heap: [live, failAt, bad]
    Iterator,    \* INICACHEITERATOR of the client: [Section, Key]
    yielded,     \* the (name, value) pairs the iterator has handed out
    ended        \* how often IniFindNextValue has returned FALSE (up to MaxEnded)

vars == <<cache, sections, keys, phase, mem, FileLength, String,
          Ptr, Section, maxPos, lines, firstLoad, file,
          heap, Iterator, yielded, ended>>

(***************************************************************************)
(* Bounds of the model.                                                    *)
(***************************************************************************)
MaxSections == 2
MaxKeys == 3
MaxLines == 3
MaxFailAt == 3      \* the failing allocation is one of the first MaxFailAt
MaxEnded == 2       \* calls of IniFindNextValue behind the end of the list

(***************************************************************************)
(* Characters.                                                             *)
(***************************************************************************)
NULL == 0
NUL == "NUL"
CR == "CR"
LF == "LF"
SP == " "
QUOTE == "\""
FAULT == "FAULT"    \* what a read outside the mapped memory yields: an access violation

Letters == {"a", "A", "b", "B", "x", "X", "y", "c", "n", "e", "g", "1", "2", "5"}
Chars == Letters \cup {NUL, CR, LF, SP, QUOTE, "[", "]", "=", ";"}

\* isspace() on the characters of the model
isspace(c) == c \in {SP, CR, LF}

towlower(c) ==
    CASE c = "A" -> "a"
      [] c = "B" -> "b"
      [] c = "X" -> "x"
      [] OTHER -> c

\* _wcsicmp(): 0 when the two strings are equal ignoring case
wcsicmp(s, t) ==
    IF Len(s) = Len(t) /\ \A i \in 1..Len(s) : towlower(s[i]) = towlower(t[i])
    THEN 0 ELSE 1

\* length of the C string held in a character array: the characters before the first NUL
wcslen(s) ==
    IF \E i \in 1..Len(s) : s[i] = NUL
    THEN (CHOOSE i \in 1..Len(s) : s[i] = NUL /\ \A j \in 1..(i - 1) : s[j] # NUL) - 1
    ELSE Len(s)

\* wcsncpy(NameU, Name, n) / _snwprintf(NameU, n, L"%.*S", n, Name), then NameU[n] = 0:
\* at most n characters of the source, stopping at its first NUL
CopyName(src, n) ==
    LET l == wcslen(src)
    IN  SubSeq(src, 1, IF l < n THEN l ELSE n)

(***************************************************************************)
(* The entry store.  A store value S is [cache, sections, keys].           *)
(***************************************************************************)
\* blocks of the process heap
CacheBlock == <<"INICACHE">>
SectionBlock(Sec) == <<"INI_SECTION", Sec>>
SectionNameBlock(Sec) == <<"INI_SECTION.Name", Sec>>
KeyBlock(Key) == <<"INI_KEYWORD", Key>>
KeyNameBlock(Key) == <<"INI_KEYWORD.Name", Key>>
KeyDataBlock(Key) == <<"INI_KEYWORD.Data", Key>>
DataUBlock == <<"DataU">>
LostBlock(Key) == <<"unreferenced", Key>>
IteratorBlock == <<"INICACHEITERATOR">>

\* The heap holds the set of allocated blocks (live), whether a block was
\* freed that was not allocated (bad), and which of the coming allocations
\* fails: the failAt-th from now, none if failAt = 0.
Store == [cache |-> cache, sections |-> sections, keys |-> keys, heap |-> heap]

\* the cache IniCacheCreate returns: a zeroed header on the heap
EmptyStore ==
    [cache |-> [FirstSection |-> NULL, LastSection |-> NULL],
     sections |-> <<>>,
     keys |-> <<>>,
     heap |-> [live |-> {CacheBlock}, failAt |-> 0, bad |-> FALSE]]

\* whether the next RtlAllocateHeap returns a block
Allocates(S) == S.heap.failAt # 1

\* RtlAllocateHeap: block b is allocated, or the call returns NULL
RtlAllocateHeap(S, b) ==
    IF S.heap.failAt = 1
    THEN [S EXCEPT !.heap.failAt = 0]
    ELSE [S EXCEPT !.heap.live = @ \cup {b},
                   !.heap.failAt = IF @ = 0 THEN 0 ELSE @ - 1]

RtlFreeHeap(S, b) ==
    IF b \in S.heap.live
    THEN [S EXCEPT !.heap.live = @ \ {b}]
    ELSE [S EXCEPT !.heap.bad = TRUE]

RECURSIVE FindSectionFrom(_, _, _)
FindSectionFrom(S, Sec, Name) ==
    IF Sec = NULL THEN NULL
    ELSE IF wcsicmp(S.sections[Sec].Name, Name) = 0 THEN Sec
    ELSE FindSectionFrom(S, S.sections[Sec].Next, Name)

\* a lookup that compares the names with wcscmp instead of _wcsicmp
FindSectionCaseSensitive(S, Name) ==
    LET hits == {i \in 1..Len(S.sections) : S.sections[i].Name = Name}
    IN  IF hits = {} THEN NULL ELSE CHOOSE i \in hits : \A j \in hits : i <= j

IniCacheFindSection(S, Name) == FindSectionFrom(S, S.cache.FirstSection, Name)

RECURSIVE FindKeyFrom(_, _, _)
FindKeyFrom(S, Key, Name) ==
    IF Key = NULL THEN NULL
    ELSE IF wcsicmp(S.keys[Key].Name, Name) = 0 THEN Key
    ELSE FindKeyFrom(S, S.keys[Key].Next, Name)

IniCacheFindKey(S, Sec, Name) == FindKeyFrom(S, S.sections[Sec].FirstKey, Name)

INSERT_FIRST == "INSERT_FIRST"
INSERT_BEFORE == "INSERT_BEFORE"
INSERT_AFTER == "INSERT_AFTER"
INSERT_LAST == "INSERT_LAST"
INSERTION_TYPE == {INSERT_FIRST, INSERT_BEFORE, INSERT_AFTER, INSERT_LAST}

\* a pointer argument that is NULL
NullStr == <<"NULLPTR">>

\* Result of a store operation: the store, the pointer returned, and whether
\* the call dereferenced a NULL pointer on its way.
Result(S, r, f) == [S |-> S, ret |-> r, fault |-> f]

\* a linking step that ignores the anchor: INSERT_BEFORE always goes to the
\* head of the list and INSERT_AFTER always to its tail
InsertKeyIgnoringAnchor(S, Sec, AnchorKey, InsertionType, Key) ==
    LET sec == S.sections[Sec] IN
    IF sec.FirstKey = NULL THEN
        Result([S EXCEPT !.sections[Sec].FirstKey = Key,
                         !.sections[Sec].LastKey = Key], Key, FALSE)
    ELSE IF InsertionType \in {INSERT_FIRST, INSERT_BEFORE} THEN
        Result([S EXCEPT !.keys[sec.FirstKey].Prev = Key,
                         !.keys[Key].Next = sec.FirstKey,
                         !.sections[Sec].FirstKey = Key], Key, FALSE)
    ELSE
        Result([S EXCEPT !.keys[sec.LastKey].Next = Key,
                         !.keys[Key].Prev = sec.LastKey,
                         !.sections[Sec].LastKey = Key], Key, FALSE)

\* a linking step that puts a new head in the place of the old one: the old
\* head is no longer reached from FirstKey
InsertKeyDroppingHead(S, Sec, AnchorKey, InsertionType, Key) ==
    LET sec == S.sections[Sec]
        K == S.keys
    IN
    IF sec.FirstKey = NULL THEN
        Result([S EXCEPT !.sections[Sec].FirstKey = Key,
                         !.sections[Sec].LastKey = Key], Key, FALSE)
    ELSE IF InsertionType = INSERT_FIRST
            \/ (InsertionType = INSERT_BEFORE
                /\ (AnchorKey = NULL \/ AnchorKey = sec.FirstKey)) THEN
        Result([S EXCEPT !.keys[Key].Next = K[sec.FirstKey].Next,
                         !.sections[Sec].FirstKey = Key], Key, FALSE)
    ELSE IF InsertionType = INSERT_BEFORE /\ AnchorKey # NULL THEN
        IF K[AnchorKey].Prev = NULL THEN
            \* AnchorKey->Prev->Next = Key writes through a NULL pointer
            Result([S EXCEPT !.keys[Key].Next = AnchorKey], NULL, TRUE)
        ELSE
            Result([S EXCEPT !.keys[Key].Next = AnchorKey,
                             !.keys[Key].Prev = K[AnchorKey].Prev,
                             !.keys[K[AnchorKey].Prev].Next = Key,
                             !.keys[AnchorKey].Prev = Key], Key, FALSE)
    ELSE IF InsertionType = INSERT_LAST
            \/ (InsertionType = INSERT_AFTER
                /\ (AnchorKey = NULL \/ AnchorKey = sec.LastKey)) THEN
        Result([S EXCEPT !.keys[sec.LastKey].Next = Key,
                         !.keys[Key].Prev = sec.LastKey,
                         !.sections[Sec].LastKey = Key], Key, FALSE)
    ELSE IF InsertionType = INSERT_AFTER /\ AnchorKey # NULL THEN
        IF K[AnchorKey].Next = NULL THEN
            \* AnchorKey->Next->Prev = Key writes through a NULL pointer
            Result([S EXCEPT !.keys[Key].Prev = AnchorKey], NULL, TRUE)
        ELSE
            Result([S EXCEPT !.keys[Key].Next = K[AnchorKey].Next,
                             !.keys[Key].Prev = AnchorKey,
                             !.keys[K[AnchorKey].Next].Prev = Key,
                             !.keys[AnchorKey].Next = Key], Key, FALSE)
    ELSE Result(S, Key, FALSE)

\* lines 210-250: link the new node Key into the key list of Sec
InsertKeyIntoSection(S, Sec, AnchorKey, InsertionType, Key) ==
    LET sec == S.sections[Sec]
        K == S.keys
    IN
    IF sec.FirstKey = NULL THEN
        Result([S EXCEPT !.sections[Sec].FirstKey = Key,
                         !.sections[Sec].LastKey = Key], Key, FALSE)
    ELSE IF InsertionType = INSERT_FIRST
            \/ (InsertionType = INSERT_BEFORE
                /\ (AnchorKey = NULL \/ AnchorKey = sec.FirstKey)) THEN
        Result([S EXCEPT !.keys[sec.FirstKey].Prev = Key,
                         !.keys[Key].Next = sec.FirstKey,
                         !.sections[Sec].FirstKey = Key], Key, FALSE)
    ELSE IF InsertionType = INSERT_BEFORE /\ AnchorKey # NULL THEN
        IF K[AnchorKey].Prev = NULL THEN
            \* AnchorKey->Prev->Next = Key writes through a NULL pointer
            Result([S EXCEPT !.keys[Key].Next = AnchorKey], NULL, TRUE)
        ELSE
            Result([S EXCEPT !.keys[Key].Next = AnchorKey,
                             !.keys[Key].Prev = K[AnchorKey].Prev,
                             !.keys[K[AnchorKey].Prev].Next = Key,
                             !.keys[AnchorKey].Prev = Key], Key, FALSE)
    ELSE IF InsertionType = INSERT_LAST
            \/ (InsertionType = INSERT_AFTER
                /\ (AnchorKey = NULL \/ AnchorKey = sec.LastKey)) THEN
        Result([S EXCEPT !.keys[sec.LastKey].Next = Key,
                         !.keys[Key].Prev = sec.LastKey,
                         !.sections[Sec].LastKey = Key], Key, FALSE)
    ELSE IF InsertionType = INSERT_AFTER /\ AnchorKey # NULL THEN
        IF K[AnchorKey].Next = NULL THEN
            \* AnchorKey->Next->Prev = Key writes through a NULL pointer
            Result([S EXCEPT !.keys[Key].Prev = AnchorKey], NULL, TRUE)
        ELSE
            Result([S EXCEPT !.keys[Key].Next = K[AnchorKey].Next,
                             !.keys[Key].Prev = AnchorKey,
                             !.keys[K[AnchorKey].Next].Prev = Key,
                             !.keys[AnchorKey].Next = Key], Key, FALSE)
    ELSE Result(S, Key, FALSE)

\* Key->Data = DataU: the block DataU is from now on the key's data block;
\* a block the key pointed at before, if never freed, is no longer referenced
KeyDataAssign(S, Key) ==
    IF KeyDataBlock(Key) \in S.heap.live
    THEN [S EXCEPT !.heap.live = (@ \ {DataUBlock}) \cup {LostBlock(Key)}]
    ELSE [S EXCEPT !.heap.live = (@ \ {DataUBlock}) \cup {KeyDataBlock(Key)}]

\* an update that does not free the data the key held
AddKeyUpdateKeepingOldData(S, Key, Data, DataLength) ==
    IF ~Allocates(S)
    THEN Result(RtlAllocateHeap(S, DataUBlock), NULL, FALSE)
    ELSE Result([KeyDataAssign(RtlAllocateHeap(S, DataUBlock), Key)
                    EXCEPT !.keys[Key].Data = CopyName(Data, DataLength)],
                Key, FALSE)

\* lines 155-176: the key exists; NameU has been freed
AddKeyUpdate(S, Key, Data, DataLength) ==
    IF ~Allocates(S)
    THEN Result(RtlAllocateHeap(S, DataUBlock), NULL, FALSE)
    ELSE Result([KeyDataAssign(RtlFreeHeap(RtlAllocateHeap(S, DataUBlock),
                                           KeyDataBlock(Key)), Key)
                    EXCEPT !.keys[Key].Data = CopyName(Data, DataLength)],
                Key, FALSE)

\* lines 191-250: the node Key is allocated and holds NameU
AddKeyData(S, Sec, AnchorKey, InsertionType, Key, NameU, Data, DataLength) ==
    IF ~Allocates(S)
    THEN Result(RtlFreeHeap(RtlFreeHeap(RtlAllocateHeap(S, KeyDataBlock(Key)),
                                        KeyNameBlock(Key)), KeyBlock(Key)),
                NULL, FALSE)
    ELSE InsertKeyIntoSection(
            [RtlAllocateHeap(S, KeyDataBlock(Key))
                EXCEPT !.keys = Append(@, [Name |-> NameU,
                                           Data |-> CopyName(Data, DataLength),
                                           Next |-> NULL, Prev |-> NULL])],
            Sec, AnchorKey, InsertionType, Key)

\* an unwinding that forgets NameU when the node cannot be allocated
AddKeyLeakingName(S, Sec, AnchorKey, InsertionType, Key, NameU, Data, DataLength) ==
    IF ~Allocates(S)
    THEN Result(RtlAllocateHeap(S, KeyBlock(Key)), NULL, FALSE)
    ELSE AddKeyData(RtlAllocateHeap(S, KeyBlock(Key)), Sec, AnchorKey,
                    InsertionType, Key, NameU, Data, DataLength)

\* lines 179-250: there is no key of that name; Key is the node to come
AddKeyNew(S, Sec, AnchorKey, InsertionType, Key, NameU, Data, DataLength) ==
    IF ~Allocates(S)
    THEN Result(RtlFreeHeap(RtlAllocateHeap(S, KeyBlock(Key)), KeyNameBlock(Key)),
                NULL, FALSE)
    ELSE AddKeyData(RtlAllocateHeap(S, KeyBlock(Key)), Sec, AnchorKey,
                    InsertionType, Key, NameU, Data, DataLength)

\* an update of an existing key that frees the old data and forgets to store
\* the new buffer in the key
AddKeyWithoutDataSwap(S, Sec, AnchorKey, InsertionType, Name, NameLength, Data, DataLength) ==
    IF Sec = NULL \/ Name = NullStr \/ NameLength = 0 \/ Data = NullStr \/ DataLength = 0
    THEN Result(S, NULL, FALSE)
    ELSE IF IniCacheFindKey(S, Sec, CopyName(Name, NameLength)) # NULL
    THEN Result(S, IniCacheFindKey(S, Sec, CopyName(Name, NameLength)), FALSE)
    ELSE AddKeyNew(RtlAllocateHeap(S, KeyNameBlock(Len(S.keys) + 1)), Sec, AnchorKey,
                   InsertionType, Len(S.keys) + 1, CopyName(Name, NameLength),
                   Data, DataLength)

\* lines 144-250: NameU is allocated and holds the name
AddKeyNamed(S, Sec, AnchorKey, InsertionType, NameU, Data, DataLength) ==
    IF IniCacheFindKey(S, Sec, NameU) # NULL
    THEN AddKeyUpdate(RtlFreeHeap(S, KeyNameBlock(Len(S.keys) + 1)),
                      IniCacheFindKey(S, Sec, NameU), Data, DataLength)
    ELSE AddKeyNew(S, Sec, AnchorKey, InsertionType, Len(S.keys) + 1, NameU,
                   Data, DataLength)

\* Name and Data are NullStr or the characters at the pointer
IniCacheAddKeyAorW(S, Sec, AnchorKey, InsertionType, Name, NameLength, Data, DataLength) ==
    IF Sec = NULL \/ Name = NullStr \/ NameLength = 0 \/ Data = NullStr \/ DataLength = 0
    THEN Result(S, NULL, FALSE)
    ELSE IF ~Allocates(S)
    THEN Result(RtlAllocateHeap(S, KeyNameBlock(Len(S.keys) + 1)), NULL, FALSE)
    ELSE AddKeyNamed(RtlAllocateHeap(S, KeyNameBlock(Len(S.keys) + 1)), Sec, AnchorKey,
                     InsertionType, CopyName(Name, NameLength), Data, DataLength)

\* an append that leaves the new node without its link to the old tail
AppendSectionWithoutPrev(S, Sec) ==
    IF S.cache.FirstSection = NULL THEN
        [S EXCEPT !.cache.FirstSection = Sec, !.cache.LastSection = Sec]
    ELSE
        [S EXCEPT !.sections[S.cache.LastSection].Next = Sec,
                  !.cache.LastSection = Sec]

\* lines 309-320: append the new node Sec to the section list
AppendSection(S, Sec) ==
    IF S.cache.FirstSection = NULL THEN
        [S EXCEPT !.cache.FirstSection = Sec, !.cache.LastSection = Sec]
    ELSE
        [S EXCEPT !.sections[S.cache.LastSection].Next = Sec,
                  !.sections[Sec].Prev = S.cache.LastSection,
                  !.cache.LastSection = Sec]

\* lines 286-322: NameU is allocated and holds the name; Sec is the node to come
AddSectionNamed(S, Sec, NameU) ==
    IF IniCacheFindSection(S, NameU) # NULL
    THEN Result(RtlFreeHeap(S, SectionNameBlock(Sec)), IniCacheFindSection(S, NameU), FALSE)
    ELSE IF ~Allocates(S)
    THEN Result(RtlFreeHeap(RtlAllocateHeap(S, SectionBlock(Sec)), SectionNameBlock(Sec)),
                NULL, FALSE)
    ELSE Result(AppendSection(
                    [RtlAllocateHeap(S, SectionBlock(Sec))
                        EXCEPT !.sections = Append(@, [Name |-> NameU,
                                                       FirstKey |-> NULL, LastKey |-> NULL,
                                                       Next |-> NULL, Prev |-> NULL])],
                    Sec),
                Sec, FALSE)

IniCacheAddSectionAorW(S, Name, NameLength) ==
    IF Name = NullStr \/ NameLength = 0
    THEN Result(S, NULL, FALSE)
    ELSE IF ~Allocates(S)
    THEN Result(RtlAllocateHeap(S, SectionNameBlock(Len(S.sections) + 1)), NULL, FALSE)
    ELSE AddSectionNamed(RtlAllocateHeap(S, SectionNameBlock(Len(S.sections) + 1)),
                         Len(S.sections) + 1, CopyName(Name, NameLength))

(***************************************************************************)
(* Public functions on the store.                                          *)
(***************************************************************************)
IniGetSection(S, Name) ==
    IF Name = NullStr THEN NULL ELSE IniCacheFindSection(S, Name)

IniAddSection(S, Name) ==
    IF Name = NullStr \/ wcslen(Name) = 0
    THEN Result(S, NULL, FALSE)
    ELSE IniCacheAddSectionAorW(S, Name, wcslen(Name))

\* an insertion that tests the pointers but not the lengths of the strings
InsertKeyUnchecked(S, Sec, AnchorKey, InsertionType, Name, Data) ==
    IF Sec = NULL \/ Name = NullStr \/ Data = NullStr
    THEN Result(S, NULL, FALSE)
    ELSE AddKeyNamed(RtlAllocateHeap(S, KeyNameBlock(Len(S.keys) + 1)), Sec, AnchorKey,
                     InsertionType, Name, Data, wcslen(Data))

IniInsertKey(S, Sec, AnchorKey, InsertionType, Name, Data) ==
    IF Sec = NULL \/ Name = NullStr \/ wcslen(Name) = 0
       \/ Data = NullStr \/ wcslen(Data) = 0
    THEN Result(S, NULL, FALSE)
    ELSE IniCacheAddKeyAorW(S, Sec, AnchorKey, InsertionType,
                            Name, wcslen(Name), Data, wcslen(Data))

IniAddKey(S, Sec, Name, Data) == IniInsertKey(S, Sec, NULL, INSERT_LAST, Name, Data)

\* IniCacheFreeKey: the name and the data are freed and their pointers set to
\* NULL, then the node is freed
IniCacheFreeKey(S, Key) ==
    RtlFreeHeap(
        [(IF S.keys[Key].Data = NullStr
          THEN (IF S.keys[Key].Name = NullStr THEN S
                ELSE RtlFreeHeap(S, KeyNameBlock(Key)))
          ELSE RtlFreeHeap(IF S.keys[Key].Name = NullStr THEN S
                           ELSE RtlFreeHeap(S, KeyNameBlock(Key)),
                           KeyDataBlock(Key)))
            EXCEPT !.keys[Key].Name = NullStr, !.keys[Key].Data = NullStr],
        KeyBlock(Key))

\* lines 58-61: Section->FirstKey = IniCacheFreeKey(Section->FirstKey) until
\* it is NULL
RECURSIVE FreeKeysFrom(_, _, _)
FreeKeysFrom(S, Sec, Key) ==
    IF Key = NULL THEN [S EXCEPT !.sections[Sec].FirstKey = NULL]
    ELSE FreeKeysFrom(IniCacheFreeKey(S, Key), Sec, S.keys[Key].Next)

\* IniCacheFreeSection: the keys, the name and the node of Sec
IniCacheFreeSection(S, Sec) ==
    RtlFreeHeap(
        [(IF S.sections[Sec].Name = NullStr
          THEN FreeKeysFrom(S, Sec, S.sections[Sec].FirstKey)
          ELSE RtlFreeHeap(FreeKeysFrom(S, Sec, S.sections[Sec].FirstKey),
                           SectionNameBlock(Sec)))
            EXCEPT !.sections[Sec].LastKey = NULL, !.sections[Sec].Name = NullStr],
        SectionBlock(Sec))

\* lines 745-748: Cache->FirstSection = IniCacheFreeSection(Cache->FirstSection)
\* until it is NULL
RECURSIVE FreeSectionsFrom(_, _)
FreeSectionsFrom(S, Sec) ==
    IF Sec = NULL THEN [S EXCEPT !.cache.FirstSection = NULL]
    ELSE FreeSectionsFrom(IniCacheFreeSection(S, Sec), S.sections[Sec].Next)

\* IniCacheDestroy: sections and keys are what the freed memory is left with
IniCacheDestroy(S) ==
    RtlFreeHeap([FreeSectionsFrom(S, S.cache.FirstSection)
                    EXCEPT !.cache.LastSection = NULL],
                CacheBlock)

\* what IniFindFirstValue and IniFindNextValue return: the store, the return
\* value, the iterator, and the pair written to *KeyName and *KeyData
Found(S, r, It, Key) ==
    [S |-> S, ret |-> r, Iterator |-> It,
     out |-> IF Key = NULL THEN <<>> ELSE <<S.keys[Key].Name, S.keys[Key].Data>>]

\* the NULL pointer where an iterator is expected
NullIterator == [Section |-> NULL, Key |-> NULL]

IniFindFirstValue(S, Sec) ==
    IF Sec = NULL THEN Found(S, NullIterator, NullIterator, NULL)
    ELSE IF S.sections[Sec].FirstKey = NULL THEN Found(S, NullIterator, NullIterator, NULL)
    ELSE IF ~Allocates(S)
    THEN Found(RtlAllocateHeap(S, IteratorBlock), NullIterator, NullIterator,
               S.sections[Sec].FirstKey)
    ELSE Found(RtlAllocateHeap(S, IteratorBlock),
               [Section |-> Sec, Key |-> S.sections[Sec].FirstKey],
               [Section |-> Sec, Key |-> S.sections[Sec].FirstKey],
               S.sections[Sec].FirstKey)

\* an iterator that steps even when there is no next key
FindNextWithoutEndTest(S, It) ==
    IF It = NullIterator THEN Found(S, FALSE, It, NULL)
    ELSE Found(S, S.keys[It.Key].Next # NULL, [It EXCEPT !.Key = S.keys[It.Key].Next],
               S.keys[It.Key].Next)

IniFindNextValue(S, It) ==
    IF It = NullIterator THEN Found(S, FALSE, It, NULL)
    ELSE IF S.keys[It.Key].Next = NULL THEN Found(S, FALSE, It, NULL)
    ELSE Found(S, TRUE, [It EXCEPT !.Key = S.keys[It.Key].Next], S.keys[It.Key].Next)

IniFindClose(S, It) == IF It = NullIterator THEN S ELSE RtlFreeHeap(S, IteratorBlock)

(***************************************************************************)
(* What a store holds, read by walking its lists from the head.            *)
(***************************************************************************)
RECURSIVE KeyChain(_, _)
KeyChain(S, Key) ==
    IF Key = NULL THEN <<>> ELSE <<Key>> \o KeyChain(S, S.keys[Key].Next)

\* the key nodes of a section, in list order
KeyList(S, Sec) == KeyChain(S, S.sections[Sec].FirstKey)

RECURSIVE SectionChain(_, _)
SectionChain(S, Sec) ==
    IF Sec = NULL THEN <<>> ELSE <<Sec>> \o SectionChain(S, S.sections[Sec].Next)

\* the section nodes of the cache, in list order
SectionList(S) == SectionChain(S, S.cache.FirstSection)

\* the (name, value) pairs of a section, in list order
KeyPairs(S, Sec) ==
    LET l == KeyList(S, Sec)
    IN  [i \in 1..Len(l) |-> <<S.keys[l[i]].Name, S.keys[l[i]].Data>>]

\* the ordered sequence of (section name, ordered (key name, value) pairs)
Contents(S) ==
    LET l == SectionList(S)
    IN  [i \in 1..Len(l) |-> <<S.sections[l[i]].Name, KeyPairs(S, l[i])>>]

(***************************************************************************)
(* The text scanner.  m is the memory at FileBuffer and a pointer is an    *)
(* index into it.  Every function returns its results together with rd,   *)
(* the highest position it has read.                                       *)
(***************************************************************************)
\* *Ptr: the character at p, or an access violation outside the mapped memory
Rd(m, p) == IF p \in 1..Len(m) THEN m[p] ELSE FAULT

Max(a, b) == IF a >= b THEN a ELSE b

\* while (*Ptr is in set) Ptr++;  returns the pointer the loop ends with
RECURSIVE SkipWhile(_, _, _)
SkipWhile(m, p, set) ==
    IF Rd(m, p) \in set THEN SkipWhile(m, p + 1, set) ELSE p

Whitespace == {c \in Chars : isspace(c)}

IniCacheSkipWhitespace(m, p) ==
    LET q == SkipWhile(m, p, Whitespace \ {NUL})
    IN  [Ptr |-> IF Rd(m, q) = NUL THEN NULL ELSE q, rd |-> q]

\* the outer loop of IniCacheSkipToNextSection: its final pointer
RECURSIVE SkipLines(_, _)
SkipLines(m, p) ==
    IF Rd(m, p) \in Chars \ {NUL, "["}
    THEN SkipLines(m, SkipWhile(m, p, Chars \ {NUL, LF}) + 1)
    ELSE p

IniCacheSkipToNextSection(m, p) ==
    LET q == SkipLines(m, p)
    IN  [Ptr |-> IF Rd(m, q) = NUL THEN NULL ELSE q, rd |-> q]

IniCacheGetSectionName(m, p) ==
    LET NamePtr == SkipWhile(m, p, Whitespace \ {NUL})
        close == SkipWhile(m, NamePtr, Chars \ {NUL, "]"})
        eol == SkipWhile(m, close + 1, Chars \ {NUL, LF})
    IN  [Ptr |-> eol + 1, NamePtr |-> NamePtr, NameSize |-> close - NamePtr, rd |-> eol]

\* the loop of IniCacheGetKeyName; NamePtr is what *NamePtr holds when the
\* loop condition is tested
RECURSIVE KeyNameLoop(_, _, _)
KeyNameLoop(m, p, NamePtr) ==
    IF Rd(m, p) \notin Chars \ {NUL}
    THEN [Ptr |-> p, NamePtr |-> NamePtr, NameSize |-> 0, rd |-> p]
    ELSE
        LET start == SkipWhile(m, p, Whitespace \cup {LF, CR})
            stop == SkipWhile(m, start, Chars \ ({NUL, "=", ";"} \cup Whitespace))
        IN  IF Rd(m, start) = NUL
            THEN [Ptr |-> start, NamePtr |-> NULL, NameSize |-> 0, rd |-> start]
            ELSE IF Rd(m, stop) = ";"
            THEN KeyNameLoop(m, SkipWhile(m, stop, Chars \ {NUL, CR, LF}), start)
            ELSE [Ptr |-> stop, NamePtr |-> start, NameSize |-> stop - start, rd |-> stop]

IniCacheGetKeyName(m, p) == KeyNameLoop(m, p, NULL)

\* if (*Ptr == c) Ptr++;
SkipChar(m, p, c) == IF Rd(m, p) = c THEN p + 1 ELSE p

\* IniCacheGetKeyValue from "if (*Ptr == '\n')" on
GetKeyValueReturn(m, DataPtr, Size, afterCR) ==
    [Ptr |-> SkipChar(m, afterCR, LF), DataPtr |-> DataPtr, DataSize |-> Size,
     rd |-> afterCR]

\* IniCacheGetKeyValue from "Skip to next line" on
GetKeyValueNextLine(m, DataPtr, dataEnd, rest) ==
    GetKeyValueReturn(m, DataPtr, dataEnd - DataPtr, SkipChar(m, rest, CR))

\* the quoted branch, after the loop that looks for the closing quote has
\* ended at dataEnd
GetKeyValueQuoted(m, DataPtr, dataEnd) ==
    GetKeyValueNextLine(m, DataPtr, dataEnd,
                        SkipWhile(m, dataEnd + 1, Chars \ {NUL, CR, LF}))

\* a scanner that takes a leading '"' as a quote in either mode
GetKeyValueAlwaysQuoted(m, val, Str) ==
    IF Rd(m, val) = QUOTE
    THEN GetKeyValueQuoted(m, val + 1, SkipWhile(m, val + 1, Chars \ {QUOTE}))
    ELSE GetKeyValueNextLine(m, val, SkipWhile(m, val, Chars \ {NUL, CR, ";"}),
                             SkipWhile(m, val, Chars \ {NUL, CR, ";"}))

\* IniCacheGetKeyValue with Ptr at val, behind '=' and the whitespace after it
GetKeyValueData(m, val, Str) ==
    IF Rd(m, val) = QUOTE /\ Str
    THEN GetKeyValueQuoted(m, val + 1, SkipWhile(m, val + 1, Chars \ {QUOTE}))
    ELSE GetKeyValueNextLine(m, val, SkipWhile(m, val, Chars \ {NUL, CR, ";"}),
                             SkipWhile(m, val, Chars \ {NUL, CR, ";"}))

\* IniCacheGetKeyValue with Ptr at eq, behind the leading whitespace
GetKeyValueEquals(m, eq, Str) ==
    IF Rd(m, eq) # "="
    THEN [Ptr |-> NULL, DataPtr |-> NULL, DataSize |-> 0, rd |-> eq]
    ELSE GetKeyValueData(m, SkipWhile(m, eq + 1, Whitespace \ {NUL}), Str)

IniCacheGetKeyValue(m, p, Str) ==
    GetKeyValueEquals(m, SkipWhile(m, p, Whitespace \ {NUL}), Str)

\* the characters a pointer into m points at (NullStr for a NULL pointer)
CharsAt(m, p) == IF p = NULL THEN NullStr ELSE SubSeq(m, p, Len(m))

(***************************************************************************)
(* IniCacheLoadFromMemory.  A loader state L is [Ptr, Section, S]; one     *)
(* round of the parse loop gives the next one, with the branch the round  *)
(* took, the highest position it read (rd) and moved the cursor to (top). *)
(***************************************************************************)
Round(kind, Pt, Sec, S, rd, top) ==
    [kind |-> kind, Ptr |-> Pt, Section |-> Sec, S |-> S, rd |-> rd, top |-> top]

\* the section branch after IniCacheAddSectionAorW has returned a
LoadSectionAdded(m, g, a) ==
    IF a.ret = NULL
    THEN Round("section", IniCacheSkipToNextSection(m, g.Ptr).Ptr, NULL, a.S,
               Max(g.rd, IniCacheSkipToNextSection(m, g.Ptr).rd),
               Max(g.Ptr, IniCacheSkipToNextSection(m, g.Ptr).rd))
    ELSE Round("section", g.Ptr, a.ret, a.S, g.rd, g.Ptr)

\* the section branch after IniCacheGetSectionName has returned g
LoadSectionNamed(m, L, g) ==
    LoadSectionAdded(m, g, IniCacheAddSectionAorW(L.S, CharsAt(m, g.NamePtr), g.NameSize))

\* the key branch after IniCacheGetKeyName has returned n and
\* IniCacheGetKeyValue v
LoadKeyValued(m, L, n, v) ==
    Round("key", v.Ptr, L.Section,
          IniCacheAddKeyAorW(L.S, L.Section, NULL, INSERT_LAST,
                             CharsAt(m, n.NamePtr), n.NameSize,
                             CharsAt(m, v.DataPtr), v.DataSize).S,
          Max(n.rd, v.rd), Max(Max(n.rd, v.rd), v.Ptr))

\* the key branch after IniCacheGetKeyName has returned n
LoadKeyNamed(m, Str, L, n) ==
    LoadKeyValued(m, L, n, IniCacheGetKeyValue(m, n.Ptr, Str))

\* the branch without a section after IniCacheSkipToNextSection has returned k
LoadSkipped(L, k) == Round("skip", k.Ptr, NULL, L.S, k.rd, k.rd)

\* the loop body after IniCacheSkipWhitespace has returned w
LoadAfterWhitespace(m, Str, L, w) ==
    IF w.Ptr = NULL THEN Round("blank", NULL, L.Section, L.S, w.rd, w.rd)
    ELSE IF Rd(m, w.Ptr) = "["
    THEN LoadSectionNamed(m, L, IniCacheGetSectionName(m, w.Ptr + 1))
    ELSE IF L.Section = NULL
    THEN LoadSkipped(L, IniCacheSkipToNextSection(m, w.Ptr))
    ELSE LoadKeyNamed(m, Str, L, IniCacheGetKeyName(m, w.Ptr))

LoadRound(m, Str, L) ==
    IF L.Ptr = NULL THEN Round("end", NULL, L.Section, L.S, 0, 0)
    ELSE IF Rd(m, L.Ptr) = NUL THEN Round("end", L.Ptr, L.Section, L.S, L.Ptr, L.Ptr)
    ELSE LoadAfterWhitespace(m, Str, L, IniCacheSkipWhitespace(m, L.Ptr))

\* the whole parse loop from loader state L: the store it leaves and whether
\* it returned (it does not when a read leaves the mapped memory)
RECURSIVE LoadLoop(_, _, _)
LoadLoop(m, Str, L) ==
    LET r == LoadRound(m, Str, L) IN
    IF r.rd > Len(m) THEN [S |-> L.S, returned |-> FALSE, top |-> r.top]
    ELSE IF r.kind = "end" THEN [S |-> L.S, returned |-> TRUE, top |-> r.top]
    ELSE LET rest == LoadLoop(m, Str, [Ptr |-> r.Ptr, Section |-> r.Section, S |-> r.S])
         IN  [rest EXCEPT !.top = Max(r.top, rest.top)]

\* IniCacheLoadFromMemory on the text: a zeroed cache header, then the loop
LoadText(text, Str) ==
    LoadLoop(text \o <<NUL>>, Str, [Ptr |-> 1, Section |-> NULL, S |-> EmptyStore])

(***************************************************************************)
(* IniCacheSaveByHandle.                                                   *)
(***************************************************************************)
RECURSIVE Sum(_)
Sum(seq) == IF seq = <<>> THEN 0 ELSE Head(seq) + Sum(Tail(seq))

RECURSIVE Flatten(_)
Flatten(seqs) == IF seqs = <<>> THEN <<>> ELSE Head(seqs) \o Flatten(Tail(seqs))

\* sprintf("%S", s): the characters of the string s
PrintS(s) == SubSeq(s, 1, wcslen(s))

\* a first pass that forgets the line between two sections
SaveBufferSizeWithoutSeparator(S) ==
    LET sl == SectionList(S)
        KeySize(k) == wcslen(S.keys[k].Name) + wcslen(S.keys[k].Data) + 3
        SectionSize(i) ==
            LET kl == KeyList(S, sl[i])
            IN  wcslen(S.sections[sl[i]].Name) + 4
                + Sum([j \in 1..Len(kl) |-> KeySize(kl[j])])
    IN  Sum([i \in 1..Len(sl) |-> SectionSize(i)])

\* first pass: the buffer size
SaveBufferSize(S) ==
    LET sl == SectionList(S)
        KeySize(k) == wcslen(S.keys[k].Name) + wcslen(S.keys[k].Data) + 3
        SectionSize(i) ==
            LET kl == KeyList(S, sl[i])
            IN  wcslen(S.sections[sl[i]].Name) + 4
                + Sum([j \in 1..Len(kl) |-> KeySize(kl[j])])
                + (IF i < Len(sl) THEN 2 ELSE 0)
    IN  Sum([i \in 1..Len(sl) |-> SectionSize(i)])

\* a second pass that puts every value between quotes
SaveFillQuoted(S) ==
    LET sl == SectionList(S)
        KeyText(k) == PrintS(S.keys[k].Name) \o <<"=", QUOTE>> \o PrintS(S.keys[k].Data)
                      \o <<QUOTE, CR, LF>>
        SectionText(i) ==
            LET kl == KeyList(S, sl[i])
            IN  <<"[">> \o PrintS(S.sections[sl[i]].Name) \o <<"]", CR, LF>>
                \o Flatten([j \in 1..Len(kl) |-> KeyText(kl[j])])
                \o (IF i < Len(sl) THEN <<CR, LF>> ELSE <<>>)
    IN  Flatten([i \in 1..Len(sl) |-> SectionText(i)])

\* second pass: what the sprintf calls write
SaveFill(S) ==
    LET sl == SectionList(S)
        KeyText(k) == PrintS(S.keys[k].Name) \o <<"=">> \o PrintS(S.keys[k].Data)
                      \o <<CR, LF>>
        SectionText(i) ==
            LET kl == KeyList(S, sl[i])
            IN  <<"[">> \o PrintS(S.sections[sl[i]].Name) \o <<"]", CR, LF>>
                \o Flatten([j \in 1..Len(kl) |-> KeyText(kl[j])])
                \o (IF i < Len(sl) THEN <<CR, LF>> ELSE <<>>)
    IN  Flatten([i \in 1..Len(sl) |-> SectionText(i)])

\* the BufferSize bytes of the zeroed buffer that NtWriteFile gets
IniCacheSaveByHandle(S) ==
    LET BufferSize == SaveBufferSize(S)
        text == SaveFill(S)
    IN  [i \in 1..BufferSize |-> IF i <= Len(text) THEN text[i] ELSE NUL]

(***************************************************************************)
(* The program as a client of the public functions sees it: a cache made  *)
(* by IniCacheCreate, then any sequence of calls.                          *)
(***************************************************************************)
SectionNames == {<<"a">>, <<"A">>, <<"b">>}
KeyNames == {<<"x">>, <<"X">>, <<"y">>, <<"a">>, <<"b">>}
KeyValues == {<<"1">>, <<"2">>}
\* arguments a public function rejects: a NULL pointer and the empty string
BadStrings == {NullStr, <<>>}

LoaderIdle ==
    /\ mem = <<>> /\ FileLength = 0 /\ String = FALSE /\ Ptr = NULL
    /\ Section = NULL /\ maxPos = 0 /\ lines = <<>> /\ firstLoad = <<>> /\ file = <<>>

LoaderUnchanged ==
    UNCHANGED <<mem, FileLength, String, Ptr, Section, maxPos, lines, firstLoad, file>>

\* no iteration is going on
IteratorIdle == Iterator = NullIterator /\ yielded = <<>> /\ ended = 0

IteratorUnchanged == UNCHANGED <<Iterator, yielded, ended>>

\* IniCacheCreate: a zeroed INICACHE header
IniCacheCreate ==
    /\ cache = EmptyStore.cache
    /\ sections = EmptyStore.sections
    /\ keys = EmptyStore.keys
    /\ heap = EmptyStore.heap

Init ==
    /\ IniCacheCreate
    /\ phase = "ready"
    /\ LoaderIdle
    /\ IteratorIdle

\* the store when the f-th allocation of the coming call fails (none: f = 0)
OutOfMemoryAt(S, f) == [S EXCEPT !.heap.failAt = f]

\* IniCacheAddKeyAorW asks the heap for up to three blocks: NameU, Key, DataU
AllocationsPerCall == 3

\* the heap after a call: what the call did not allocate stays available
HeapAfter(S) == [S.heap EXCEPT !.failAt = 0]

\* The state after a call that returned r.  A call that writes through a NULL
\* pointer ends the program there: nothing reads its store afterwards.
Returned(r) ==
    IF r.fault
    THEN /\ phase' = "crashed"
         /\ UNCHANGED <<cache, sections, keys, heap>>
    ELSE /\ cache' = r.S.cache
         /\ sections' = r.S.sections
         /\ keys' = r.S.keys
         /\ heap' = HeapAfter(r.S)
         /\ UNCHANGED phase

\* The functions treat names only through _wcsicmp, so which unused name a new
\* key or section gets does not matter: the calls of the model give a new key
\* (section) the first name of its order that the section (the cache) does not
\* hold yet, and address existing ones by any spelling.
KeyNameOrder == <<<<"x">>, <<"y">>, <<"a">>, <<"b">>>>
SectionNameOrder == <<<<"a">>, <<"b">>>>

FirstUnused(order, used) ==
    LET free == {i \in 1..Len(order) : \A u \in used : wcsicmp(u, order[i]) # 0}
    IN  IF free = {} THEN {} ELSE {order[CHOOSE i \in free : \A j \in free : i <= j]}

NamesOfKeys(S, Sec) ==
    LET l == KeyList(S, Sec) IN {S.keys[l[i]].Name : i \in 1..Len(l)}
NamesOfSections(S) == {S.sections[i].Name : i \in 1..Len(S.sections)}

KeyNameChoice(S, Sec, Name) ==
    IF Name \in BadStrings \/ Sec = NULL THEN TRUE
    ELSE \/ \E u \in NamesOfKeys(S, Sec) : wcsicmp(u, Name) = 0
         \/ Name \in FirstUnused(KeyNameOrder, NamesOfKeys(S, Sec))

\* Values are copied and never compared: a new key gets the first value, and
\* only the update of an existing key stores another one.
FirstValue == <<"1">>

KeyValueChoice(S, Sec, Name, Data) ==
    IF Name \in BadStrings \/ Sec = NULL \/ Data \in BadStrings THEN TRUE
    ELSE \/ \E u \in NamesOfKeys(S, Sec) : wcsicmp(u, Name) = 0
         \/ Data = FirstValue

SectionNameChoice(S, Name) ==
    IF Name \in BadStrings THEN TRUE
    ELSE \/ \E u \in NamesOfSections(S) : wcsicmp(u, Name) = 0
         \/ Name \in FirstUnused(SectionNameOrder, NamesOfSections(S))

WithinBounds(r) ==
    /\ Len(r.S.sections) <= MaxSections
    /\ Len(r.S.keys) <= MaxKeys

CallIniGetSection ==
    \E Name \in SectionNames \cup BadStrings :
        /\ phase = "ready"
        /\ IniGetSection(Store, Name) \in 0..Len(sections)
        /\ UNCHANGED <<cache, sections, keys, heap, phase>>
        /\ LoaderUnchanged
        /\ IteratorUnchanged

CallIniAddSection ==
    \E Name \in SectionNames \cup BadStrings, f \in 0..AllocationsPerCall :
        LET r == IniAddSection(OutOfMemoryAt(Store, f), Name) IN
        /\ phase = "ready"
        /\ SectionNameChoice(Store, Name)
        /\ WithinBounds(r)
        /\ Returned(r)
        /\ LoaderUnchanged
        /\ IteratorUnchanged

CallIniAddKey ==
    \E Sec \in 0..Len(sections), Name \in KeyNames \cup BadStrings :
      /\ phase = "ready"
      /\ KeyNameChoice(Store, Sec, Name)
      /\ \E Data \in KeyValues \cup BadStrings, f \in 0..AllocationsPerCall :
        LET r == IniAddKey(OutOfMemoryAt(Store, f), Sec, Name, Data) IN
        /\ KeyValueChoice(Store, Sec, Name, Data)
        /\ WithinBounds(r)
        /\ Returned(r)
        /\ LoaderUnchanged
        /\ IteratorUnchanged

\* AnchorKey is NULL or any key of the cache, of the target section or of another.
\* The allocations come before the anchor is looked at: the calls that run out
\* of memory are those of CallIniAddKey.
CallIniInsertKey ==
    \E Sec \in 1..Len(sections), Name \in KeyNames :
      /\ phase = "ready"
      /\ KeyNameChoice(Store, Sec, Name)
      /\ \E AnchorKey \in 0..Len(keys), InsertionType \in INSERTION_TYPE,
            Data \in KeyValues :
        LET r == IniInsertKey(Store, Sec, AnchorKey, InsertionType, Name, Data) IN
        /\ KeyValueChoice(Store, Sec, Name, Data)
        /\ WithinBounds(r)
        /\ Returned(r)
        /\ LoaderUnchanged
        /\ IteratorUnchanged

\* IniFindFirstValue on any section, or on NULL; the client of Spec does not
\* change the cache while it holds the iterator, the one of SpecInterleaved does
CallIniFindFirstValue ==
    \E Sec \in 0..Len(sections), f \in 0..1 :
        LET r == IniFindFirstValue(OutOfMemoryAt(Store, f), Sec) IN
        /\ phase = "ready"
        /\ heap' = HeapAfter(r.S)
        /\ Iterator' = r.Iterator
        /\ yielded' = IF r.ret = NullIterator THEN <<>> ELSE <<r.out>>
        /\ phase' = IF r.ret = NullIterator THEN "ready" ELSE "iterating"
        /\ UNCHANGED <<cache, sections, keys, ended>>
        /\ LoaderUnchanged

CallIniFindNextValue ==
    LET r == IniFindNextValue(Store, Iterator) IN
    /\ phase = "iterating"
    /\ ended < MaxEnded
    /\ Iterator' = r.Iterator
    /\ yielded' = IF r.ret THEN Append(yielded, r.out) ELSE yielded
    /\ ended' = IF r.ret THEN ended ELSE ended + 1
    /\ UNCHANGED <<cache, sections, keys, heap, phase>>
    /\ LoaderUnchanged

CallIniFindClose ==
    /\ phase = "iterating"
    /\ heap' = IniFindClose(Store, Iterator).heap
    /\ Iterator' = NullIterator
    /\ yielded' = <<>>
    /\ ended' = 0
    /\ phase' = "ready"
    /\ UNCHANGED <<cache, sections, keys>>
    /\ LoaderUnchanged

\* IniCacheDestroy ends the life of the cache
CallIniCacheDestroy ==
    /\ phase \in {"ready", "reloaded"}
    /\ cache' = IniCacheDestroy(Store).cache
    /\ sections' = IniCacheDestroy(Store).sections
    /\ keys' = IniCacheDestroy(Store).keys
    /\ heap' = IniCacheDestroy(Store).heap
    /\ phase' = "destroyed"
    /\ UNCHANGED <<Ptr, Section>>
    /\ UNCHANGED <<mem, FileLength, String, maxPos, lines, firstLoad, file>>
    /\ IteratorUnchanged

Next ==
    \/ CallIniGetSection
    \/ CallIniAddSection
    \/ CallIniAddKey
    \/ CallIniInsertKey
    \/ CallIniFindFirstValue
    \/ CallIniFindNextValue
    \/ CallIniFindClose
    \/ CallIniCacheDestroy

Spec == Init /\ [][Next]_vars

\* A client that goes on adding to the cache while it holds an iterator, and
\* gives IniInsertKey as AnchorKey NULL or a key of the target section.  With
\* NULL and INSERT_LAST the call is the one IniAddKey makes.  The links do not
\* depend on the values: every key gets the first value.
CallIniInsertKeyAnchored ==
    \E Sec \in 1..Len(sections), Name \in KeyNames :
      /\ phase \in {"ready", "iterating"}
      /\ KeyNameChoice(Store, Sec, Name)
      /\ \E AnchorKey \in {NULL} \cup {KeyList(Store, Sec)[i] : i \in 1..Len(KeyList(Store, Sec))},
            InsertionType \in INSERTION_TYPE :
        LET r == IniInsertKey(Store, Sec, AnchorKey, InsertionType, Name, FirstValue) IN
        /\ WithinBounds(r)
        /\ Returned(r)
        /\ LoaderUnchanged
        /\ IteratorUnchanged

\* IniAddSection while the client holds an iterator
CallIniAddSectionIterating ==
    \E Name \in SectionNames :
        LET r == IniAddSection(Store, Name) IN
        /\ phase = "iterating"
        /\ SectionNameChoice(Store, Name)
        /\ WithinBounds(r)
        /\ Returned(r)
        /\ LoaderUnchanged
        /\ IteratorUnchanged

NextInterleaved ==
    \/ CallIniGetSection
    \/ CallIniAddSection
    \/ CallIniInsertKeyAnchored
    \/ CallIniAddSectionIterating
    \/ CallIniFindFirstValue
    \/ CallIniFindNextValue
    \/ CallIniFindClose
    \/ CallIniCacheDestroy

SpecInterleaved == Init /\ [][NextInterleaved]_vars

(***************************************************************************)
(* The program that loads a text, saves the cache and loads what it saved. *)
(***************************************************************************)
\* the lines a text is made of
HeaderA == <<"[", "A", "]", CR, LF>>
HeaderB == <<"[", "b", "]", CR, LF>>
KeyX == <<"x", "=", "1", CR, LF>>
KeyUpperX == <<"X", "=", "2", CR, LF>>
KeyQuoted == <<"y", "=", QUOTE, "a", ";", "b", QUOTE, CR, LF>>
CommentLine == <<";", "c", CR, LF>>
NoEqualsLine == <<"n", CR, LF>>
EmptyValueLine == <<"e", "=", CR, LF>>
EqualsLine == <<"=", "5", CR, LF>>
BlankLine == <<CR, LF>>
OpenHeader == <<"[", "A">>
OpenQuote == <<"y", "=", QUOTE, "a">>

Lines == {HeaderA, HeaderB, KeyX, KeyUpperX, KeyQuoted, CommentLine, NoEqualsLine,
          EmptyValueLine, EqualsLine, BlankLine, OpenHeader, OpenQuote}

LineSeqs == UNION {[1..n -> Lines] : n \in 0..MaxLines}

\* more lines, to see how the scanner finds the end of a name and of a value
HeaderNoClose == <<"[", "A", CR, LF>>
HeaderSpace == <<"[", SP, "b", "]", CR, LF>>
HeaderRest == <<"[", "A", "]", "n", CR, LF>>
KeyLF == <<"x", "=", "1", LF>>
KeySpaced == <<"x", "=", SP, "2", CR, LF>>
KeyQuotedRest == <<"y", "=", QUOTE, "a", QUOTE, "n", CR, LF>>

ScanLines == {HeaderA, HeaderB, HeaderNoClose, HeaderSpace, HeaderRest,
              KeyX, KeyLF, KeySpaced, KeyQuoted, KeyQuotedRest, BlankLine}

ScanLineSeqs == UNION {[1..n -> ScanLines] : n \in 0..MaxLines}

\* lines that stand outside a section: a header without a name, and a header
\* behind a blank (the parse loop skips the blank before it tests for '[')
HeaderEmpty == <<"[", "]", CR, LF>>
HeaderIndented == <<SP, "[", "A", "]", CR, LF>>

OrphanLines == {HeaderA, HeaderB, HeaderEmpty, HeaderIndented, KeyX, KeyUpperX, BlankLine}

OrphanLineSeqs == UNION {[1..n -> OrphanLines] : n \in 0..MaxLines}

\* What may lie behind the terminating NUL of the buffer: nothing mapped,
\* zeroes, or other bytes of the heap.  It is decided when the scanner first
\* reads there.
Tails == {<<>>, <<NUL, NUL>>, <<"g", QUOTE, CR, LF, NUL, NUL>>}

TailChoices == IF Len(mem) > FileLength + 1 THEN {<<>>} ELSE Tails

\* IniCacheLoadFromMemory has allocated the zeroed cache header and stands
\* before the parse loop
LoadEntered(texts, f) ==
    \E ls \in texts, Str \in BOOLEAN :
        /\ lines = ls
        /\ mem = Flatten(ls) \o <<NUL>>
        /\ FileLength = Len(Flatten(ls))
        /\ String = Str
        /\ Ptr = 1
        /\ Section = NULL
        /\ maxPos = 0
        /\ cache = EmptyStore.cache
        /\ sections = EmptyStore.sections
        /\ keys = EmptyStore.keys
        /\ heap = OutOfMemoryAt(EmptyStore, f).heap
        /\ phase = "load"
        /\ firstLoad = <<>>
        /\ file = <<>>
        /\ IteratorIdle

\* every allocation of the load succeeds
InitLoad == LoadEntered(LineSeqs, 0)

\* one of the allocations of the load fails
InitLoadNoMemory == \E f \in 1..MaxFailAt : LoadEntered(LineSeqs, f)

\* the load of a text of ScanLines
InitLoadScan == LoadEntered(ScanLineSeqs, 0)

\* the load of a text of OrphanLines
InitLoadOrphan == LoadEntered(OrphanLineSeqs, 0)

\* The end of a round r of the parse loop on the memory m.  A read outside the
\* mapped memory is an access violation; a read behind the buffer decides
\* what lies there.
LoadStep(m, r) ==
    /\ mem' = IF r.rd > Len(mem) THEN m ELSE mem
    /\ maxPos' = IF r.rd > Len(m) THEN Max(maxPos, Len(m) + 1) ELSE Max(maxPos, r.top)
    /\ IF r.rd > Len(m)
       THEN /\ phase' = "crashed"
            /\ UNCHANGED <<cache, sections, keys, heap, Ptr, Section>>
       ELSE IF r.kind = "end"
       THEN /\ phase' = IF phase = "load" THEN "loaded" ELSE "reloaded"
            /\ heap' = HeapAfter(Store)
            /\ UNCHANGED <<cache, sections, keys, Ptr, Section>>
       ELSE /\ Ptr' = r.Ptr
            /\ Section' = r.Section
            /\ cache' = r.S.cache
            /\ sections' = r.S.sections
            /\ keys' = r.S.keys
            /\ heap' = r.S.heap
            /\ UNCHANGED phase
    /\ UNCHANGED <<FileLength, String, lines, firstLoad, file>>
    /\ IteratorUnchanged

\* the rounds the parse loop can take from the current state
LoadRounds ==
    {<<mem \o t, LoadRound(mem \o t, String,
                           [Ptr |-> Ptr, Section |-> Section, S |-> Store])>> :
        t \in TailChoices}

\* a round that finds a section header
LoadSection ==
    /\ phase \in {"load", "reload"}
    /\ \E mr \in LoadRounds : mr[2].kind = "section" /\ LoadStep(mr[1], mr[2])

\* a round that skips the text before the first section
LoadSkip ==
    /\ phase \in {"load", "reload"}
    /\ \E mr \in LoadRounds : mr[2].kind = "skip" /\ LoadStep(mr[1], mr[2])

\* a round that reads a key line
LoadKey ==
    /\ phase \in {"load", "reload"}
    /\ \E mr \in LoadRounds : mr[2].kind = "key" /\ LoadStep(mr[1], mr[2])

\* a round that finds only whitespace up to the end of the text
LoadBlank ==
    /\ phase \in {"load", "reload"}
    /\ \E mr \in LoadRounds : mr[2].kind = "blank" /\ LoadStep(mr[1], mr[2])

\* the loop condition fails and IniCacheLoadFromMemory returns
LoadReturn ==
    /\ phase \in {"load", "reload"}
    /\ \E mr \in LoadRounds : mr[2].kind = "end" /\ LoadStep(mr[1], mr[2])

\* IniCacheSaveByHandle on the loaded cache
SaveCache ==
    /\ phase = "loaded"
    /\ file' = IniCacheSaveByHandle(Store)
    /\ phase' = "saved"
    /\ UNCHANGED <<cache, sections, keys, heap, mem, FileLength, String, Ptr, Section,
                   maxPos, lines, firstLoad>>
    /\ IteratorUnchanged

\* IniCacheLoadByHandle on the saved file: the file and a NUL in a new buffer,
\* then IniCacheLoadFromMemory into a new cache
ReloadFile ==
    /\ phase = "saved"
    /\ firstLoad' = Contents(Store)
    /\ mem' = file \o <<NUL>>
    /\ FileLength' = Len(file)
    /\ Ptr' = 1
    /\ Section' = NULL
    /\ maxPos' = 0
    /\ cache' = EmptyStore.cache
    /\ sections' = EmptyStore.sections
    /\ keys' = EmptyStore.keys
    /\ heap' = EmptyStore.heap
    /\ phase' = "reload"
    /\ UNCHANGED <<String, lines, file>>
    /\ IteratorUnchanged

NextLoad ==
    \/ LoadSection
    \/ LoadSkip
    \/ LoadKey
    \/ LoadBlank
    \/ LoadReturn
    \/ SaveCache
    \/ ReloadFile
    \/ CallIniCacheDestroy

SpecLoad == InitLoad /\ [][NextLoad]_vars

\* the same program on the texts of ScanLines
SpecLoadScan == InitLoadScan /\ [][NextLoad]_vars

\* the same program on a heap that refuses one allocation of the load
SpecLoadNoMemory == InitLoadNoMemory /\ [][NextLoad]_vars

\* the same program on the texts of OrphanLines
SpecLoadOrphan == InitLoadOrphan /\ [][NextLoad]_vars

(***************************************************************************)
(* Claims about the entry store.  Each one is read on the reachable        *)
(* stores: whatever call the client makes next, with whatever arguments,   *)
(* the store and the pointer the call returns are as the claim says.       *)
(***************************************************************************)
EqualNoCase(s, t) ==
    /\ Len(s) = Len(t)
    /\ \A i \in 1..Len(s) : towlower(s[i]) = towlower(t[i])

\* no two names of the sequence are equal ignoring case
AllDistinct(names) ==
    \A i, j \in 1..Len(names) : i # j => ~EqualNoCase(names[i], names[j])

SectionNamesOf(S) == [i \in 1..Len(Contents(S)) |-> Contents(S)[i][1]]
KeyNamesOf(S, Sec) == [i \in 1..Len(KeyPairs(S, Sec)) |-> KeyPairs(S, Sec)[i][1]]

SectionsOf(S) == {SectionList(S)[i] : i \in 1..Len(SectionList(S))}
KeysOf(S, Sec) == {KeyList(S, Sec)[i] : i \in 1..Len(KeyList(S, Sec))}

NamesUnique(S) ==
    /\ AllDistinct(SectionNamesOf(S))
    /\ \A Sec \in SectionsOf(S) : AllDistinct(KeyNamesOf(S, Sec))

\* position of the first element of seq that satisfies the test, 0 if none
IndexOfKey(l, Key) ==
    IF \E i \in 1..Len(l) : l[i] = Key
    THEN CHOOSE i \in 1..Len(l) : l[i] = Key /\ \A j \in 1..(i - 1) : l[j] # Key
    ELSE 0

FirstMatch(names, Name) ==
    IF \E i \in 1..Len(names) : EqualNoCase(names[i], Name)
    THEN CHOOSE i \in 1..Len(names) :
            /\ EqualNoCase(names[i], Name)
            /\ \A j \in 1..(i - 1) : ~EqualNoCase(names[j], Name)
    ELSE 0

\* seq with e put after its first n elements
InsertAt(seq, n, e) == SubSeq(seq, 1, n) \o <<e>> \o SubSeq(seq, n + 1, Len(seq))

\* every section but Sec holds what it held
OtherSectionsSame(S, T, Sec) ==
    /\ SectionList(T) = SectionList(S)
    /\ SectionNamesOf(T) = SectionNamesOf(S)
    /\ \A s2 \in SectionsOf(S) \ {Sec} : KeyPairs(T, s2) = KeyPairs(S, s2)

\* C3 (as claimed): after any sequence of calls, no two sections of the cache
\* and no two keys of one section have the same name ignoring case; so the
\* store is in that state now and after whatever call comes next.
C3_NamesUnique ==
    phase = "ready" =>
        /\ NamesUnique(Store)
        /\ \A Name \in SectionNames : NamesUnique(IniAddSection(Store, Name).S)
        /\ \A Sec \in SectionsOf(Store), AnchorKey \in 0..Len(keys),
              InsertionType \in INSERTION_TYPE, Name \in KeyNames, Data \in KeyValues :
              LET r == IniInsertKey(Store, Sec, AnchorKey, InsertionType, Name, Data)
              IN  ~r.fault => NamesUnique(r.S)

\* the call that returned r has updated the i-th key of section Sec in place:
\* l and before are the key nodes and the (name, value) pairs the section held
UpdatedInPlace(S, r, Sec, l, before, i, Data) ==
    /\ ~r.fault
    /\ r.ret = l[i]
    /\ KeyList(r.S, Sec) = l
    /\ KeyPairs(r.S, Sec) = [before EXCEPT ![i] = <<before[i][1], Data>>]
    /\ OtherSectionsSame(S, r.S, Sec)

\* C4: IniAddKey / IniInsertKey with a name that matches an existing key of the
\* section ignoring case returns that key, whatever the anchor and the
\* insertion type; the key's value is the new value, and the section's key
\* count, the order of its keys and every other key's value are unchanged.
C4_UpdateInPlace ==
    phase = "ready" =>
        \A Sec \in SectionsOf(Store), Name \in KeyNames :
            LET l == KeyList(Store, Sec)
                before == KeyPairs(Store, Sec)
                i == FirstMatch(KeyNamesOf(Store, Sec), Name)
            IN  i # 0 =>
                  \A Data \in KeyValues :
                    /\ UpdatedInPlace(Store, IniAddKey(Store, Sec, Name, Data),
                                      Sec, l, before, i, Data)
                    /\ \A AnchorKey \in 0..Len(keys), InsertionType \in INSERTION_TYPE :
                           UpdatedInPlace(Store,
                               IniInsertKey(Store, Sec, AnchorKey, InsertionType, Name, Data),
                               Sec, l, before, i, Data)

\* C4 witness: an update has happened: the middle key of a three-key section
\* holds a value that only an update stores.
C4_Witness ==
    /\ phase = "ready"
    /\ \E Sec \in SectionsOf(Store) :
          /\ Len(KeyList(Store, Sec)) = 3
          /\ KeyPairs(Store, Sec)[2][2] # FirstValue
          /\ KeyPairs(Store, Sec)[1][2] = FirstValue

\* where the claim puts a new key: after how many keys of the list l
SplicePoint(l, AnchorKey, InsertionType) ==
    CASE InsertionType = INSERT_FIRST -> 0
      [] InsertionType = INSERT_LAST -> Len(l)
      [] InsertionType = INSERT_BEFORE -> IndexOfKey(l, AnchorKey) - 1
      [] InsertionType = INSERT_AFTER -> IndexOfKey(l, AnchorKey)

\* C5: IniInsertKey with a name new to the section splices the new key into the
\* section's key sequence: INSERT_FIRST at the head, INSERT_LAST at the tail,
\* INSERT_BEFORE / INSERT_AFTER immediately before / after the anchor, for
\* every anchor that is a key of the section; the other keys keep their order
\* and values, and the key count grows by one.
C5_PositionalInsert ==
    phase = "ready" =>
        \A Sec \in SectionsOf(Store), Name \in KeyNames :
            LET l == KeyList(Store, Sec)
                before == KeyPairs(Store, Sec)
            IN  FirstMatch(KeyNamesOf(Store, Sec), Name) = 0 =>
                  \A InsertionType \in INSERTION_TYPE, Data \in KeyValues :
                    \A AnchorKey \in (IF InsertionType \in {INSERT_BEFORE, INSERT_AFTER}
                                      THEN KeysOf(Store, Sec) ELSE 0..Len(keys)) :
                      LET r == IniInsertKey(Store, Sec, AnchorKey, InsertionType, Name, Data)
                          n == SplicePoint(l, AnchorKey, InsertionType)
                      IN  /\ ~r.fault
                          /\ r.ret = Len(keys) + 1
                          /\ KeyList(r.S, Sec) = InsertAt(l, n, r.ret)
                          /\ KeyPairs(r.S, Sec) = InsertAt(before, n, <<Name, Data>>)
                          /\ Len(KeyList(r.S, Sec)) = Len(l) + 1
                          /\ OtherSectionsSame(Store, r.S, Sec)

\* C5 witness: the newest key of a three-key section stands between the two
\* older ones: IniInsertKey has put it before or after an anchor.
C5_Witness ==
    /\ phase = "ready"
    /\ \E Sec \in SectionsOf(Store) :
          /\ Len(KeyList(Store, Sec)) = 3
          /\ KeyList(Store, Sec)[2] = Len(keys)

\* the keys that are linked into a section other than Sec
ForeignKeys(S, Sec) == UNION {KeysOf(S, s2) : s2 \in SectionsOf(S) \ {Sec}}

\* C6 (as claimed): IniInsertKey with INSERT_BEFORE / INSERT_AFTER and an anchor
\* that is NULL, or a key of another section, does what INSERT_FIRST /
\* INSERT_LAST does: the same store (the new key at the head / tail of the
\* target section, every other section unchanged) and no fault.
C6_AnchorFallback ==
    phase = "ready" =>
        \A Sec \in SectionsOf(Store), Name \in KeyNames, Data \in KeyValues :
          \A AnchorKey \in {NULL} \cup ForeignKeys(Store, Sec) :
            /\ IniInsertKey(Store, Sec, AnchorKey, INSERT_BEFORE, Name, Data)
                 = IniInsertKey(Store, Sec, NULL, INSERT_FIRST, Name, Data)
            /\ IniInsertKey(Store, Sec, AnchorKey, INSERT_AFTER, Name, Data)
                 = IniInsertKey(Store, Sec, NULL, INSERT_LAST, Name, Data)

\* C7: IniGetSection returns the section whose name equals the argument
\* ignoring case, or NULL if there is none; IniAddSection returns that section
\* and leaves the cache unchanged when there is one, and otherwise appends a
\* new section without keys at the end of the section sequence, the earlier
\* sections keeping their order and contents.
C7_SectionLookupAndAdd ==
    phase = "ready" =>
        \A Name \in SectionNames :
            LET l == SectionList(Store)
                i == FirstMatch(SectionNamesOf(Store), Name)
                r == IniAddSection(Store, Name)
            IN  /\ IniGetSection(Store, Name) = (IF i = 0 THEN NULL ELSE l[i])
                /\ ~r.fault
                /\ i # 0 => r.ret = l[i] /\ r.S = Store
                /\ i = 0 =>
                     /\ r.ret = Len(sections) + 1
                     /\ SectionList(r.S) = Append(l, r.ret)
                     /\ Contents(r.S) = Append(Contents(Store), <<Name, <<>>>>)
                     /\ r.S.keys = keys

\* C7 witness: IniAddSection has appended a second section to a cache whose
\* first section holds keys.
C7_Witness ==
    /\ phase = "ready"
    /\ Len(SectionList(Store)) = 2
    /\ Len(KeyList(Store, SectionList(Store)[1])) >= 1

(***************************************************************************)
(* Claims about the loader and the serializer, read on the program that    *)
(* loads a text, saves the cache and loads the saved file.                 *)
(***************************************************************************)
Headers == {HeaderA, HeaderB}

\* the lines of a text that follows the file format
WellFormedLines == {HeaderA, HeaderB, KeyX, KeyUpperX, KeyQuoted, CommentLine, BlankLine}

\* the section and key lines of a text that follows the file format
EntryLines == {HeaderA, HeaderB, KeyX, KeyUpperX, KeyQuoted}

LinesAmong(set) == \A i \in 1..Len(lines) : lines[i] \in set

HasLine(l) == \E i \in 1..Len(lines) : lines[i] = l

Without(ls, l) == SelectSeq(ls, LAMBDA x : x # l)

\* what IniCacheLoadFromMemory makes of the text with every line l removed
LoadedWithout(l) == Contents(LoadText(Flatten(Without(lines, l)), String).S)

AllKeyNames(S) == {S.keys[k].Name : k \in UNION {KeysOf(S, Sec) : Sec \in SectionsOf(S)}}

\* C1 (as claimed): for a well-formed text, in quoted and in unquoted mode,
\* loading the text, saving the cache and loading the saved file gives the
\* same ordered sections with the same ordered (key name, value) pairs as the
\* first load.
C1_RoundTrip ==
    (phase = "reloaded" /\ LinesAmong(WellFormedLines))
        => Contents(Store) = firstLoad

\* C2 (as claimed): whatever the NUL-terminated text, no step of the scanner
\* moves the cursor to, or reads at, a position behind the terminating NUL
\* (which stands at FileLength + 1).
C2_ScannerStaysInBuffer == maxPos <= FileLength + 1

\* C8 (as claimed): a key line inside a section whose name is not followed by
\* '=' is left out and nothing else is: the load gives what it gives for the
\* text without that line, all the key lines and headers behind it included.
C8_LoadContinues ==
    (/\ phase = "loaded"
     /\ Len(lines) >= 1 /\ lines[1] \in Headers
     /\ LinesAmong(EntryLines \cup {NoEqualsLine})
     /\ HasLine(NoEqualsLine))
        => Contents(Store) = LoadedWithout(NoEqualsLine)

\* C9 (as claimed): a key line without '=' on the line (the line "n"), or with
\* nothing behind '=' up to the end of the line (the line "e="), adds no key
\* to any section, whatever lines follow it.
C9_MalformedLineAddsNoKey ==
    phase = "loaded" =>
        \A Name \in AllKeyNames(Store) :
            wcsicmp(Name, <<"n">>) # 0 /\ wcsicmp(Name, <<"e">>) # 0

\* C10 (as claimed): a comment line makes no section and no key, and the load
\* of a text with comment lines gives the cache that the load of the text
\* without them gives, wherever they stand.
C10_CommentTransparent ==
    (/\ phase = "loaded"
     /\ LinesAmong(EntryLines \cup {CommentLine})
     /\ HasLine(CommentLine))
        => Contents(Store) = LoadedWithout(CommentLine)

(***************************************************************************)
(* Claims about allocation failure.                                        *)
(***************************************************************************)
\* C11 (as claimed): if an allocation fails while IniCacheLoadFromMemory runs,
\* the load does not return success: a load of a well-formed text that has
\* returned STATUS_SUCCESS holds every section and key of the text, which is
\* what the load of that text holds when no allocation fails.
C11_LoadSurfacesAllocationFailure ==
    (phase = "loaded" /\ LinesAmong(EntryLines))
        => Contents(Store) = Contents(LoadText(Flatten(lines), String).S)

\* the call that returned r, made when the f-th allocation fails, has met the
\* failing allocation
AllocationFailed(r) == r.S.heap.failAt = 0

\* the call has returned failure, and the store and the set of allocated
\* blocks are what they were before the call
Unwound(r) ==
    /\ ~r.fault
    /\ r.ret = NULL
    /\ ~r.S.heap.bad
    /\ [r.S EXCEPT !.heap.failAt = 0] = Store

\* C12: if an allocation inside IniCacheAddKeyAorW or IniCacheAddSectionAorW
\* fails (name buffer, node or data buffer, for a new key and for the update of
\* an existing key), the call returns NULL, the sections, the key sequences and
\* the values are what they were, and every block the call has allocated is
\* freed again.
C12_UnwindOnAllocationFailure ==
    phase = "ready" =>
        /\ \A Name \in SectionNames, f \in 1..AllocationsPerCall :
              LET r == IniCacheAddSectionAorW(OutOfMemoryAt(Store, f), Name, wcslen(Name))
              IN  AllocationFailed(r) => Unwound(r)
        /\ \A Sec \in SectionsOf(Store), AnchorKey \in 0..Len(keys),
              InsertionType \in INSERTION_TYPE, Name \in KeyNames, Data \in KeyValues,
              f \in 1..AllocationsPerCall :
              LET r == IniCacheAddKeyAorW(OutOfMemoryAt(Store, f), Sec, AnchorKey,
                                          InsertionType, Name, wcslen(Name),
                                          Data, wcslen(Data))
              IN  AllocationFailed(r) => Unwound(r)

\* C12 witness: a section holds a key, and the calls on it fail at every
\* allocation: the update of that key at its data buffer, the addition of
\* another key at its name, its node and its data buffer.
C12_Witness ==
    /\ phase = "ready"
    /\ \E Sec \in SectionsOf(Store) :
          /\ Len(KeyList(Store, Sec)) = 1
          /\ KeyPairs(Store, Sec)[1][1] = <<"x">>
          /\ AllocationFailed(IniCacheAddKeyAorW(OutOfMemoryAt(Store, 2), Sec, NULL,
                                                 INSERT_LAST, <<"X">>, 1, <<"2">>, 1))
          /\ \A f \in 1..AllocationsPerCall :
                AllocationFailed(IniCacheAddKeyAorW(OutOfMemoryAt(Store, f), Sec, NULL,
                                                    INSERT_LAST, <<"y">>, 1, <<"1">>, 1))

\* C13: IniAddKey / IniInsertKey with a NULL or empty name or a NULL or empty
\* value, and IniAddSection with a NULL or empty name, return NULL and leave
\* the whole cache (and the heap) as it is, whatever the other arguments.
C13_InvalidArgumentsRejected ==
    phase = "ready" =>
        /\ \A Name \in BadStrings :
              IniAddSection(Store, Name) = Result(Store, NULL, FALSE)
        /\ \A Sec \in 0..Len(sections), Name \in KeyNames \cup BadStrings,
              Data \in KeyValues \cup BadStrings :
              (Name \in BadStrings \/ Data \in BadStrings) =>
                  /\ IniAddKey(Store, Sec, Name, Data) = Result(Store, NULL, FALSE)
                  /\ \A AnchorKey \in 0..Len(keys), InsertionType \in INSERTION_TYPE :
                        IniInsertKey(Store, Sec, AnchorKey, InsertionType, Name, Data)
                            = Result(Store, NULL, FALSE)

\* C13 witness: a cache with two keys in a section, on which a call with an
\* empty name and a call with a NULL value return NULL.
C13_Witness ==
    /\ phase = "ready"
    /\ \E Sec \in SectionsOf(Store) :
          /\ Len(KeyList(Store, Sec)) = 2
          /\ IniAddKey(Store, Sec, <<>>, <<"1">>).ret = NULL
          /\ IniInsertKey(Store, Sec, KeyList(Store, Sec)[1], INSERT_AFTER,
                          <<"y">>, NullStr).ret = NULL
          /\ IniAddSection(Store, <<>>).ret = NULL

(***************************************************************************)
(* Claims about the text format.                                           *)
(***************************************************************************)
\* the lines of one section: its header, then one line for each key
SectionLines(sec) ==
    <<"[">> \o sec[1] \o <<"]", CR, LF>>
    \o Flatten([j \in 1..Len(sec[2]) |->
                    sec[2][j][1] \o <<"=">> \o sec[2][j][2] \o <<CR, LF>>])

\* the sections of the contents c, one CRLF between two of them
RECURSIVE SerializedForm(_)
SerializedForm(c) ==
    IF c = <<>> THEN <<>>
    ELSE IF Len(c) = 1 THEN SectionLines(c[1])
    ELSE SectionLines(c[1]) \o <<CR, LF>> \o SerializedForm(Tail(c))

\* C14: IniCacheSaveByHandle writes, for each section in cache order, the line
\* "[Name]" CRLF, then for each of its keys in key order the line "Name=Value"
\* CRLF, one more CRLF between two sections and none after the last one;
\* nothing else is written and no quote is added to a value.
C14_SerializedForm ==
    phase = "saved" => file = SerializedForm(Contents(Store))

\* C14 witness: a cache of two sections, the first one with a key, is saved.
C14_Witness ==
    /\ phase = "saved"
    /\ Len(SectionList(Store)) = 2
    /\ Len(KeyList(Store, SectionList(Store)[1])) >= 1

\* the first position from p on where the line l holds a character of set,
\* Len(l) + 1 if there is none
RECURSIVE FirstOf(_, _, _)
FirstOf(l, p, set) ==
    IF p > Len(l) THEN p ELSE IF l[p] \in set THEN p ELSE FirstOf(l, p + 1, set)

\* the name a header line gives by the claimed rule: the characters between
\* '[' and the first ']' of the line (the end of the line if it has none)
HeaderName(l) == SubSeq(l, 2, FirstOf(l, 2, {"]", CR, LF}) - 1)

\* the name of a key line: the characters before '='
LineKeyName(l) == SubSeq(l, 1, FirstOf(l, 1, {"="}) - 1)

\* where the value of a key line starts: behind '=' and the blanks after it
ValueStart(l) == FirstOf(l, FirstOf(l, 1, {"="}) + 1, Chars \ {SP})

\* the value of a key line by the claimed rules
LineValue(l, Str) ==
    IF Str /\ l[ValueStart(l)] = QUOTE
    THEN SubSeq(l, ValueStart(l) + 1, FirstOf(l, ValueStart(l) + 1, {QUOTE}) - 1)
    ELSE SubSeq(l, ValueStart(l), FirstOf(l, ValueStart(l), {CR, LF, ";"}) - 1)

\* The cache the claimed rules give for the lines ls, read line by line: a
\* header opens (or finds) its section, a key line adds (or updates) its key
\* in the open section, a blank line does nothing.
RECURSIVE ByLine(_, _, _, _)
ByLine(ls, Str, S, Sec) ==
    IF ls = <<>> THEN S
    ELSE IF Head(ls)[1] = "["
    THEN ByLine(Tail(ls), Str, IniAddSection(S, HeaderName(Head(ls))).S,
                IniAddSection(S, HeaderName(Head(ls))).ret)
    ELSE IF Head(ls) = BlankLine \/ Sec = NULL
    THEN ByLine(Tail(ls), Str, S, Sec)
    ELSE ByLine(Tail(ls), Str,
                IniAddKey(S, Sec, LineKeyName(Head(ls)), LineValue(Head(ls), Str)).S, Sec)

HeaderLines == {HeaderA, HeaderB, HeaderNoClose, HeaderSpace, HeaderRest}

\* C15 (as claimed): the section name the load stores for a header line is the
\* characters between '[' and the first ']' of that line, the rest of the line
\* is dropped, and the lines that follow are read as they are, also when the
\* header has no ']' or a blank behind '['.
C15_SectionHeaderRule ==
    (phase = "loaded" /\ LinesAmong(HeaderLines \cup {KeyX, BlankLine}))
        => Contents(Store) = Contents(ByLine(lines, String, EmptyStore, NULL))

\* In unquoted mode what stands behind the ';' of a value is a comment; a
\* comment right before a header is the case of C10 and is left out here.
CommentBeforeHeader ==
    /\ ~String
    /\ \E i \in 1..(Len(lines) - 1) : lines[i] = KeyQuoted /\ lines[i + 1][1] = "["

\* C16 (as claimed): the value of a key line read as unquoted is the
\* characters behind '=' and the blanks after it, up to the first end of line
\* or ';' of that line, for a line that ends in CR LF and for a line that
\* ends in LF; no later line is taken into a value.
C16_UnquotedValueRule ==
    (/\ phase = "loaded"
     /\ LinesAmong({HeaderA, HeaderB, KeyX, KeyLF, KeySpaced, KeyQuoted, BlankLine})
     /\ (String => ~HasLine(KeyQuoted))
     /\ ~CommentBeforeHeader)
        => Contents(Store) = Contents(ByLine(lines, String, EmptyStore, NULL))

\* C17: in quoted mode a value that starts with '"' is the characters up to
\* the next '"' (a ';' among them is kept), what follows the closing quote on
\* the line is dropped and the next line is read as usual; in unquoted mode
\* the same line is read by the unquoted rule.
C17_QuotedValueRule ==
    (/\ phase = "loaded"
     /\ LinesAmong({HeaderA, HeaderB, KeyX, KeySpaced, KeyQuoted, KeyQuotedRest}))
        => /\ ~CommentBeforeHeader
                => Contents(Store) = Contents(ByLine(lines, String, EmptyStore, NULL))
           /\ ~String
                => \A Sec \in SectionsOf(Store) :
                     \A i \in 1..Len(KeyPairs(Store, Sec)) :
                        KeyPairs(Store, Sec)[i][1] = <<"y">>
                            => KeyPairs(Store, Sec)[i][2]
                                 \in {LineValue(KeyQuoted, FALSE),
                                      LineValue(KeyQuotedRest, FALSE)}

\* C17 witness: in quoted mode, a section holds the value of a quoted line with
\* text behind the closing quote, and the key of the line after it.
C17_Witness ==
    /\ phase = "loaded"
    /\ String
    /\ lines = <<HeaderA, KeyQuotedRest, KeyX>>
    /\ Contents(Store) = <<<<<<"A">>, <<<<<<"y">>, <<"a">>>>, <<<<"x">>, <<"1">>>>>>>>>>

(***************************************************************************)
(* Claims about iteration and destruction.                                 *)
(***************************************************************************)
\* C18: on a section with n >= 1 keys that is not changed meanwhile,
\* IniFindFirstValue and the calls of IniFindNextValue that follow hand out
\* the n (name, value) pairs of the section, each once, in key order; the
\* n-th call of IniFindNextValue and every later one returns FALSE and leaves
\* the iterator as it is; IniFindFirstValue on a section without keys returns
\* NULL and makes no iterator.
C18_IterationOrderAndEnd ==
    /\ phase = "iterating" =>
          LET all == KeyPairs(Store, Iterator.Section)
              n == Len(yielded)
          IN  /\ n >= 1 /\ n <= Len(all)
              /\ yielded = SubSeq(all, 1, n)
              /\ Iterator.Key = KeyList(Store, Iterator.Section)[n]
              /\ ended > 0 => n = Len(all)
              /\ n < Len(all) => IniFindNextValue(Store, Iterator).ret = TRUE
              /\ n = Len(all)
                    => IniFindNextValue(Store, Iterator) = Found(Store, FALSE, Iterator, NULL)
    /\ phase = "ready" =>
          \A Sec \in SectionsOf(Store) :
              KeyList(Store, Sec) = <<>>
                  => IniFindFirstValue(Store, Sec)
                        = Found(Store, NullIterator, NullIterator, NULL)

\* C18 witness: the three pairs of a section are handed out and
\* IniFindNextValue has returned FALSE MaxEnded times.
C18_Witness ==
    /\ phase = "iterating"
    /\ Len(yielded) = 3
    /\ ended = MaxEnded

\* C19 (as claimed): for every NUL-terminated text, in quoted and in unquoted
\* mode, the parse loop of IniCacheLoadFromMemory ends and the function
\* returns: every round of the loop either moves the cursor strictly forward
\* (or sets it to NULL, which ends the loop at its next test), or is the
\* return of the function.  The cursor cannot move forward in the buffer for
\* ever, so this is termination; a round that ends in an access violation is
\* neither.
C19_LoadTerminates ==
    [][(phase \in {"load", "reload"})
          => (phase' \in {"loaded", "reloaded"}
              \/ (phase' = phase /\ (Ptr' = NULL \/ Ptr' > Ptr)))]_vars

\* the blocks a store owns: the header, every section node with its name,
\* every key node with its name and its value
BlocksOf(S) ==
    {CacheBlock}
    \cup {SectionBlock(Sec) : Sec \in 1..Len(S.sections)}
    \cup {SectionNameBlock(Sec) : Sec \in 1..Len(S.sections)}
    \cup {KeyBlock(Key) : Key \in 1..Len(S.keys)}
    \cup {KeyNameBlock(Key) : Key \in 1..Len(S.keys)}
    \cup {KeyDataBlock(Key) : Key \in 1..Len(S.keys)}

\* C20: after any sequence of add / insert calls the heap holds, for the
\* cache, its header, every section and its name, every key with its name
\* and its current value, one block each and nothing else (a value that an
\* update has replaced is freed already); IniCacheDestroy frees every one of
\* them, and no block is ever freed twice.
C20_DestroyFreesEverythingOnce ==
    /\ ~heap.bad
    /\ phase = "ready" => heap.live = BlocksOf(Store)
    /\ phase = "destroyed" => heap.live = {}

\* C20 witness: a cache of two sections and MaxKeys keys is destroyed.
C20_Witness ==
    /\ phase = "destroyed"
    /\ Len(sections) = 2
    /\ Len(keys) = MaxKeys

(***************************************************************************)
(* Claims about key lines outside a section.                               *)
(***************************************************************************)
\* the lines without the blanks before a header: the parse loop reads
\* " [A]" as it reads "[A]"
Unindented(ls) == [i \in 1..Len(ls) |-> IF ls[i][1] = SP THEN Tail(ls[i]) ELSE ls[i]]

\* C21 (as claimed): key lines before the first header, or behind a header
\* whose section could not be added (its name is empty), are added to no
\* section, and the parse goes on at the next header of the text, which is
\* loaded with its keys: the load gives what reading the text line by line
\* gives, every header opening its section.
C21_OrphanKeysDropped ==
    phase = "loaded"
        => Contents(Store) = Contents(ByLine(Unindented(lines), String, EmptyStore, NULL))

(***************************************************************************)
(* Claims about the links of the lists, read on the client that adds to    *)
(* the cache in any order, also while it holds an iterator.                *)
(***************************************************************************)
\* the nodes met by following Next from p, n of them at most
RECURSIVE Walk(_, _, _)
Walk(nodes, p, n) ==
    IF p = NULL \/ n = 0 THEN <<>> ELSE <<p>> \o Walk(nodes, nodes[p].Next, n - 1)

\* the nodes of the list that starts at First, as a sequence and as a set
Linked(nodes, First) == Walk(nodes, First, Len(nodes) + 1)
LinkedSet(nodes, First) == {Linked(nodes, First)[i] : i \in 1..Len(Linked(nodes, First))}

\* First and Last are the ends of a well-formed doubly linked list
WellLinked(nodes, First, Last) ==
    LET w == Linked(nodes, First) IN
    /\ (First = NULL) <=> (Last = NULL)
    /\ First # NULL => nodes[First].Prev = NULL /\ nodes[Last].Next = NULL
    /\ \A i \in 1..Len(w) :
          nodes[w[i]].Next # NULL => nodes[nodes[w[i]].Next].Prev = w[i]
    /\ \A i, j \in 1..Len(w) : i # j => w[i] # w[j]
    /\ First # NULL => w[Len(w)] = Last

\* every list of the store is well formed, every section node is in the
\* section list and every key node in the key list of exactly one section
ListsWellFormed(S) ==
    /\ WellLinked(S.sections, S.cache.FirstSection, S.cache.LastSection)
    /\ LinkedSet(S.sections, S.cache.FirstSection) = 1..Len(S.sections)
    /\ \A Sec \in 1..Len(S.sections) :
          WellLinked(S.keys, S.sections[Sec].FirstKey, S.sections[Sec].LastKey)
    /\ \A k \in 1..Len(S.keys) :
          Cardinality({Sec \in 1..Len(S.sections) :
                          k \in LinkedSet(S.keys, S.sections[Sec].FirstKey)}) = 1

\* the key lists of T are those of S, but that section Sec holds Key as well
KeyAddedTo(S, T, Sec, Key) ==
    \A s2 \in 1..Len(S.sections) :
        LinkedSet(T.keys, T.sections[s2].FirstKey)
            = LinkedSet(S.keys, S.sections[s2].FirstKey)
                \cup (IF s2 = Sec THEN {Key} ELSE {})

\* C22: after any sequence of IniAddSection / IniAddKey / IniInsertKey calls
\* whose anchors are NULL or keys of the target section, the section list and
\* every key list are well-formed doubly linked lists (both ends NULL or
\* neither, no Prev at the head, no Next at the tail, k.Next.Prev = k, the
\* walk from the head ends at the tail and meets no node twice) that hold
\* every node ever added: the walk meets every node of the store, and the next
\* call puts its key into the list of its section and into no other.
C22_ListsWellFormed ==
    phase \in {"ready", "iterating"} =>
        /\ ListsWellFormed(Store)
        /\ \A Name \in SectionNames :
              LET r == IniAddSection(Store, Name) IN
              /\ r.ret \in LinkedSet(r.S.sections, r.S.cache.FirstSection)
              /\ SubSeq(Linked(r.S.sections, r.S.cache.FirstSection), 1, Len(sections))
                    = Linked(sections, cache.FirstSection)
              /\ KeyAddedTo(Store, r.S, NULL, NULL)
        /\ \A Sec \in 1..Len(sections), Name \in KeyNames,
              InsertionType \in INSERTION_TYPE :
              \A AnchorKey \in {NULL} \cup LinkedSet(keys, sections[Sec].FirstKey) :
                LET r == IniInsertKey(Store, Sec, AnchorKey, InsertionType, Name, FirstValue)
                IN  /\ ~r.fault
                    /\ r.ret # NULL
                    /\ KeyAddedTo(Store, r.S, Sec, r.ret)
                    /\ Linked(r.S.sections, r.S.cache.FirstSection)
                          = Linked(sections, cache.FirstSection)

\* C22 witness: the cache holds two sections, and one of them three keys of
\* which the newest stands in the middle, linked to both its neighbours.
C22_Witness ==
    /\ phase = "ready"
    /\ Len(sections) = 2
    /\ \E Sec \in 1..Len(sections) :
          /\ Linked(keys, sections[Sec].FirstKey) = <<1, 3, 2>>
          /\ keys[3].Prev = 1 /\ keys[3].Next = 2
          /\ keys[2].Prev = 3 /\ keys[1].Next = 3

(***************************************************************************)
(* Claims about the size of the save buffer.                               *)
(***************************************************************************)
\* the size the claim gives for the contents c: the name and 4 for a section,
\* the name, the value and 3 for a key, 2 between two sections
ClaimedSize(c) ==
    Sum([i \in 1..Len(c) |->
            Len(c[i][1]) + 4
            + Sum([j \in 1..Len(c[i][2]) |-> Len(c[i][2][j][1]) + Len(c[i][2][j][2]) + 3])])
    + (IF Len(c) = 0 THEN 0 ELSE 2 * (Len(c) - 1))

\* C23: for every cache the first pass of IniCacheSaveByHandle counts, by the
\* claimed sum, as many bytes as its second pass writes: the fill ends
\* inside the BufferSize + 1 bytes of the buffer, and the BufferSize bytes
\* given to NtWriteFile are the text written, with no byte cut off and none
\* left at zero.
C23_SaveBufferSize ==
    phase \in {"load", "loaded", "saved", "reload", "reloaded"} =>
        /\ SaveBufferSize(Store) = ClaimedSize(Contents(Store))
        /\ Len(SaveFill(Store)) = SaveBufferSize(Store)
        /\ IniCacheSaveByHandle(Store) = SaveFill(Store)
        /\ phase = "saved" => Len(file) = SaveBufferSize(Store) /\ file = SaveFill(Store)

\* C23 witness: the 17 bytes of two sections, the first with one key, and of
\* the line between them have been written.
C23_Witness ==
    /\ phase = "saved"
    /\ Len(SectionList(Store)) = 2
    /\ Len(KeyList(Store, SectionList(Store)[1])) = 1
    /\ SaveBufferSize(Store) = 17
    /\ Len(file) = 17

(***************************************************************************)
(* Claims about an iterator on a cache that grows.                         *)
(***************************************************************************)
\* C24: whatever IniAddKey / IniInsertKey / IniAddSection calls come between
\* the calls of IniFindNextValue on a live iterator, the iterator's key is a
\* key of the list of its section, and IniFindNextValue hands out the key
\* that follows it in that list now, or returns FALSE when it is the last;
\* the next call that adds to the cache, whatever its anchor, leaves it so.
C24_IteratorStaysAttached ==
    phase = "iterating" =>
        LET l == KeyList(Store, Iterator.Section)
            i == IndexOfKey(l, Iterator.Key)
            r == IniFindNextValue(Store, Iterator)
        IN  /\ Iterator.Section \in SectionsOf(Store)
            /\ i >= 1
            /\ i < Len(l) =>
                  r = Found(Store, TRUE, [Section |-> Iterator.Section, Key |-> l[i + 1]],
                            l[i + 1])
            /\ i = Len(l) => r = Found(Store, FALSE, Iterator, NULL)
            /\ \A Name \in SectionNames :
                  /\ Iterator.Section \in SectionsOf(IniAddSection(Store, Name).S)
                  /\ Iterator.Key \in KeysOf(IniAddSection(Store, Name).S, Iterator.Section)
            /\ \A Sec \in SectionsOf(Store), AnchorKey \in 0..Len(keys),
                  InsertionType \in INSERTION_TYPE, Name \in KeyNames, Data \in KeyValues :
                  LET a == IniInsertKey(Store, Sec, AnchorKey, InsertionType, Name, Data)
                  IN  ~a.fault => Iterator.Key \in KeysOf(a.S, Iterator.Section)

\* C24 witness: IniFindNextValue has returned FALSE at the end of the list, a
\* key was added behind the iterator's key after that, and the next call
\* hands it out.
C24_Witness ==
    /\ phase = "iterating"
    /\ ended >= 1
    /\ Iterator.Key # sections[Iterator.Section].LastKey
    /\ IniFindNextValue(Store, Iterator).ret = TRUE

============================================================================
